---- MODULE Spec2Model ----
(***************************************************************************)
(* A model of astcenc-rs (src/src/lib.rs): the safe layer around the ASTC   *)
(* codec engine.  The engine itself (astcenc_sys) is external: every call   *)
(* into it returns a status code chosen by the environment.                 *)
(*                                                                          *)
(* Sizes are u32 (extents) and usize (lengths) in the source.  They are     *)
(* kept at full width: a number is a little-endian tuple of base-256 limbs, *)
(* u32 arithmetic is truncated to U32Limbs limbs, usize arithmetic to       *)
(* UsizeLimbs limbs, and the mathematical value is computed in WideLimbs    *)
(* limbs, which no product in the model can exceed.                         *)
(***************************************************************************)
EXTENDS Integers, Sequences, FiniteSets, TLC

(* ------------------------------ bounds --------------------------------- *)
MaxHandles == 1
MaxDim == 6
MaxThreads == 2

(* ---------------------- fixed-width arithmetic ------------------------- *)
U32Limbs == 4
UsizeLimbs == 2 * U32Limbs
WideLimbs == 4 * U32Limbs
Idx == 1..WideLimbs

\* a number is the tuple of its base-256 limbs, lowest first, without leading
\* zero limbs: 0 is << >>, 6 is <<6>>, 65536 is <<0, 0, 1>>
Limb(a, i) == IF i <= Len(a) THEN a[i] ELSE 0

RECURSIVE Trim(_)
Trim(a) ==
    IF a = << >> \/ a[Len(a)] # 0 THEN a ELSE Trim(SubSeq(a, 1, Len(a) - 1))

RECURSIVE Carry(_, _, _)
Carry(c, i, carry) ==
    IF i > WideLimbs THEN << >>
    ELSE LET v == c[i] + carry
         IN  << v % 256 >> \o Carry(c, i + 1, v \div 256)

FromInt(n) == Trim(Carry([i \in Idx |-> IF i = 1 THEN n ELSE 0], 1, 0))
Add(a, b) == Trim(Carry([i \in Idx |-> Limb(a, i) + Limb(b, i)], 1, 0))
\* a - b, modulo 2^(8 * WideLimbs)
Sub(a, b) == Trim(Carry([i \in Idx |-> Limb(a, i) - Limb(b, i)], 1, 0))

RECURSIVE Dot(_, _, _, _)
Dot(a, b, k, i) ==
    IF i > k THEN 0 ELSE Limb(a, i) * Limb(b, k + 1 - i) + Dot(a, b, k, i + 1)

Mul(a, b) == Trim(Carry([k \in Idx |-> Dot(a, b, k, 1)], 1, 0))

\* the value modulo 2^(8w), and whether the value is below 2^(8w)
Trunc(a, w) == IF Len(a) <= w THEN a ELSE Trim(SubSeq(a, 1, w))
Fits(a, w) == Len(a) <= w
Less(a, b) ==
    \/ Len(a) < Len(b)
    \/ /\ Len(a) = Len(b)
       /\ \E i \in 1..Len(a) :
             /\ a[i] < b[i]
             /\ \A j \in (i + 1)..Len(a) : a[j] = b[j]

RECURSIVE DivRem(_, _, _, _)
DivRem(a, d, i, rem) ==
    IF i = 0 THEN << >>
    ELSE LET cur == rem * 256 + a[i]
         IN  DivRem(a, d, i - 1, cur % d) \o << cur \div d >>

\* floor(a / d) for a divisor d that is a small integer
DivSmall(a, d) == Trim(DivRem(a, d, Len(a), 0))

RECURSIVE ToIntFrom(_, _)
ToIntFrom(a, i) ==
    IF i > Len(a) THEN 0 ELSE a[i] + 256 * ToIntFrom(a, i + 1)

\* the integer a small number stands for
ToInt(a) == ToIntFrom(a, 1)

Zero == FromInt(0)
One == FromInt(1)
U32Max == [i \in 1..U32Limbs |-> 255]

\* u32 and usize operations: [val |-> the wrapped result, ovf |-> it overflowed]
MulU32(a, b) ==
    [val |-> Trunc(Mul(a, b), U32Limbs), ovf |-> ~Fits(Mul(a, b), U32Limbs)]
AddU32(a, b) ==
    [val |-> Trunc(Add(a, b), U32Limbs), ovf |-> ~Fits(Add(a, b), U32Limbs)]
SubU32(a, b) ==
    [val |-> Trunc(Sub(a, b), U32Limbs), ovf |-> ~Fits(Sub(a, b), U32Limbs)]
MulUsize(a, b) ==
    [val |-> Trunc(Mul(a, b), UsizeLimbs), ovf |-> ~Fits(Mul(a, b), UsizeLimbs)]

\* a length above isize::MAX cannot be the capacity of a Vec
AboveIsizeMax(a) == ~Fits(a, UsizeLimbs) \/ Limb(a, UsizeLimbs) >= 128

(* ----------------------------- Extents --------------------------------- *)
Ext(a, b, c) == [x |-> a, y |-> b, z |-> c]
ExtOf(a, b, c) == Ext(FromInt(a), FromInt(b), FromInt(c))
ExtentsDefault == ExtOf(0, 0, 0)
default_block_size == ExtOf(4, 4, 1)

(* --------------------------- Error Taxonomy ---------------------------- *)
SUCCESS == "ASTCENC_SUCCESS"
KnownErrorCodes ==
    { "ASTCENC_ERR_BAD_BLOCK_SIZE", "ASTCENC_ERR_BAD_CONTEXT",
      "ASTCENC_ERR_BAD_CPU_FLOAT", "ASTCENC_ERR_BAD_DECODE_MODE",
      "ASTCENC_ERR_BAD_FLAGS", "ASTCENC_ERR_BAD_PARAM",
      "ASTCENC_ERR_BAD_QUALITY", "ASTCENC_ERR_BAD_PROFILE",
      "ASTCENC_ERR_BAD_SWIZZLE", "ASTCENC_ERR_NOT_IMPLEMENTED",
      "ASTCENC_ERR_OUT_OF_MEM" }
\* status values the engine's type admits and the match does not list
UnlistedCodes == { "UNLISTED_CODE_A", "UNLISTED_CODE_B" }
Codes == {SUCCESS} \cup KnownErrorCodes \cup UnlistedCodes
\* the statuses drawn for the calls on a native context: success, a listed
\* error and an unlisted one (the mapping is applied to every one alike)
ContextCallCodes == { SUCCESS, "ASTCENC_ERR_OUT_OF_MEM", "UNLISTED_CODE_A" }

Errors ==
    { "BadBlockSize", "BadContext", "BadCpuFloat", "BadDecodeMode", "BadFlags",
      "BadParam", "BadQuality", "BadProfile", "BadSwizzle", "NotImplemented",
      "OutOfMem", "Unknown" }

\* the mapping with one arm sending BAD_QUALITY to another code's variant
error_code_to_result_swapped(code) ==
    CASE code = SUCCESS -> "Ok"
      [] code = "ASTCENC_ERR_BAD_BLOCK_SIZE" -> "BadBlockSize"
      [] code = "ASTCENC_ERR_BAD_CONTEXT" -> "BadContext"
      [] code = "ASTCENC_ERR_BAD_CPU_FLOAT" -> "BadCpuFloat"
      [] code = "ASTCENC_ERR_BAD_DECODE_MODE" -> "BadDecodeMode"
      [] code = "ASTCENC_ERR_BAD_FLAGS" -> "BadFlags"
      [] code = "ASTCENC_ERR_BAD_PARAM" -> "BadParam"
      [] code = "ASTCENC_ERR_BAD_QUALITY" -> "BadProfile"
      [] code = "ASTCENC_ERR_BAD_PROFILE" -> "BadProfile"
      [] code = "ASTCENC_ERR_BAD_SWIZZLE" -> "BadSwizzle"
      [] code = "ASTCENC_ERR_NOT_IMPLEMENTED" -> "NotImplemented"
      [] code = "ASTCENC_ERR_OUT_OF_MEM" -> "OutOfMem"
      [] OTHER -> "Unknown"

error_code_to_result(code) ==
    CASE code = SUCCESS -> "Ok"
      [] code = "ASTCENC_ERR_BAD_BLOCK_SIZE" -> "BadBlockSize"
      [] code = "ASTCENC_ERR_BAD_CONTEXT" -> "BadContext"
      [] code = "ASTCENC_ERR_BAD_CPU_FLOAT" -> "BadCpuFloat"
      [] code = "ASTCENC_ERR_BAD_DECODE_MODE" -> "BadDecodeMode"
      [] code = "ASTCENC_ERR_BAD_FLAGS" -> "BadFlags"
      [] code = "ASTCENC_ERR_BAD_PARAM" -> "BadParam"
      [] code = "ASTCENC_ERR_BAD_QUALITY" -> "BadQuality"
      [] code = "ASTCENC_ERR_BAD_PROFILE" -> "BadProfile"
      [] code = "ASTCENC_ERR_BAD_SWIZZLE" -> "BadSwizzle"
      [] code = "ASTCENC_ERR_NOT_IMPLEMENTED" -> "NotImplemented"
      [] code = "ASTCENC_ERR_OUT_OF_MEM" -> "OutOfMem"
      [] OTHER -> "Unknown"

(* ------------------------------- state --------------------------------- *)
VARIABLES
    config,           \* the Config value the caller holds (built, not yet moved)
    ctxs,             \* the Context values: slot -> Context
    handles,          \* the engine's native contexts: handle -> state
    last,             \* the public call that returned last, with what it did
    access,           \* who can reach each Context: its owner and the references lent
    running,          \* thread -> the Context method it is inside, if any
    builder           \* the ConfigBuilder value the caller holds

threads == << access, running >>
vars == << config, ctxs, handles, last, access, running, builder >>

\* one Context value at a time (a new one can follow a dropped one): Contexts
\* share no state, each has its own native context and its own Config
Slots == { 1 }
Threads == 1..MaxThreads
HandleIds == 1..MaxHandles

NoConfig == [has |-> FALSE, block |-> ExtentsDefault]
NoOutput == [has |-> FALSE, extents |-> ExtentsDefault, len |-> Zero]
\* what a Context's last successful compress took and returned; streak counts
\* the compress calls of the Context that returned Ok since one that did not,
\* saturating at 2
NoProduced ==
    [has |-> FALSE, streak |-> 0, extents |-> ExtentsDefault, inlen |-> Zero, len |-> Zero]
NoData == [len |-> Zero, src |-> 0]
NoContext ==
    [alive |-> FALSE, inner |-> 0, block |-> ExtentsDefault, produced |-> NoProduced]
NoHandle == [state |-> "unallocated", dirty |-> FALSE]

\* one call of this layer into the engine: the entry point, the native context,
\* the status it returned, the buffer size handed over, and whether the native
\* context was dirty (compressed into and not reset) when the call was made
EngineCall(fn, h, code, size, dirty) ==
    [fn |-> fn, handle |-> h, code |-> code, size |-> size, dirty_in |-> dirty]

\* a public call that has returned: its arguments (the image's or the requested
\* extents, the image buffer's length, the compressed input), the engine calls
\* it made in order, what it returned ("Ok", an Error, or "Panic"), and the
\* value an Ok carries
Returned(op, c, ext, len, data, calls, res, out) ==
    [op |-> op, ctx |-> c, extents |-> ext, len |-> len, data |-> data,
     calls |-> calls, res |-> res, out |-> out]

\* owner: the thread holding the Context value (0: nobody); shared: the
\* threads holding a & reference; excl: the thread holding a &mut reference
NoAccess == [owner |-> 0, shared |-> {}, excl |-> 0]
Idle == [op |-> "idle", ctx |-> 0]

NoBuilder == [has |-> FALSE, profile |-> "LdrRgba", preset |-> "PRESET_MEDIUM",
              block_size |-> default_block_size]

Init ==
    /\ config = NoConfig
    /\ ctxs = [c \in Slots |-> NoContext]
    /\ handles = [h \in HandleIds |-> NoHandle]
    /\ last = Returned("none", 0, ExtentsDefault, Zero, NoData, << >>, "Ok", NoOutput)
    /\ access = [c \in Slots |-> NoAccess]
    /\ running = [t \in Threads |-> Idle]
    /\ builder = NoBuilder

(* ------------------------------ the engine ----------------------------- *)
\* block sizes the engine's validation can accept; every other is refused
SupportedBlocks == { default_block_size, ExtOf(3, 3, 3) }
BuildBlocks == SupportedBlocks \cup { ExtOf(0, 4, 1) }

ConfigInitCodes(block) ==
    IF block \in SupportedBlocks THEN Codes ELSE { "ASTCENC_ERR_BAD_BLOCK_SIZE" }

\* the native context after a call that returned `code`
AfterCompressImage(hs, h, code) ==
    IF code = SUCCESS THEN [hs EXCEPT ![h].dirty = TRUE] ELSE hs
AfterCompressReset(hs, h, code) ==
    IF code = SUCCESS THEN [hs EXCEPT ![h].dirty = FALSE] ELSE hs
AfterContextAlloc(hs, h, code) ==
    IF code = SUCCESS /\ h \in HandleIds
    THEN [hs EXCEPT ![h] = [state |-> "allocated", dirty |-> FALSE]]
    ELSE hs

Allocated == { h \in HandleIds : handles[h].state # "unallocated" }

\* the out-pointer astcenc_context_alloc can leave: a fresh native context on
\* success (or, as Context::new allows for, null), nothing on failure
AllocPointers(code) ==
    IF code = SUCCESS THEN {0, Cardinality(Allocated) + 1} ELSE {0}

(* --------------------------- ConfigBuilder ----------------------------- *)
\* ConfigBuilder::build: the engine validates, the status is mapped
build ==
    \E block \in BuildBlocks : \E code \in ConfigInitCodes(block) :
        LET res == error_code_to_result(code)
        IN  /\ config' = IF res = "Ok" THEN [has |-> TRUE, block |-> block] ELSE config
            /\ last' = Returned("build", 0, block, Zero, NoData,
                                << EngineCall("astcenc_config_init", 0, code, Zero, FALSE) >>,
                                res, NoOutput)
            /\ UNCHANGED << ctxs, handles >>

(* ------------------------------ Context -------------------------------- *)
\* Context::new reporting a null handle as BadContext
NewResultNullBadContext(code, ptr) ==
    IF error_code_to_result(code) # "Ok" THEN error_code_to_result(code)
    ELSE IF ptr = 0 THEN "BadContext" ELSE "Ok"

\* what Context::new returns for the engine's status and out-pointer
NewResult(code, ptr) ==
    IF error_code_to_result(code) # "Ok" THEN error_code_to_result(code)
    ELSE IF ptr = 0 THEN "Unknown" ELSE "Ok"

\* Context::new(config): the Config is moved in; one native context is allocated
new(c) ==
    /\ config.has
    /\ ~ctxs[c].alive
    /\ Cardinality(Allocated) < MaxHandles
    /\ \E code \in ContextCallCodes : \E ptr \in AllocPointers(code) :
        LET res == NewResult(code, ptr)
        IN  /\ handles' = AfterContextAlloc(handles, ptr, code)
            /\ ctxs' = IF res = "Ok"
                       THEN [ctxs EXCEPT ![c] = [alive |-> TRUE, inner |-> ptr,
                                                 block |-> config.block,
                                                 produced |-> NoProduced]]
                       ELSE ctxs
            /\ config' = NoConfig
            /\ last' = Returned("new", c, config.block, Zero, NoData,
                                << EngineCall("astcenc_context_alloc", ptr, code,
                                              Zero, FALSE) >>,
                                res, NoOutput)

\* what destroying a Context does to the engine: Context has no Drop impl, and
\* its fields (a NonNull pointer and a plain Config) have no destructor
DropGlue(hs, h) == hs

drop(c) ==
    /\ ctxs[c].alive
    /\ handles' = DropGlue(handles, ctxs[c].inner)
    /\ ctxs' = [ctxs EXCEPT ![c] = NoContext]
    /\ last' = Returned("drop", c, ExtentsDefault, Zero, NoData, << >>, "Ok", NoOutput)
    /\ UNCHANGED config

(* ----------------------------- the inputs ------------------------------ *)
Pow2_16 == FromInt(65536)
Pow2_15 == FromInt(32768)
Pow2_30 == FromInt(1073741824)

SmallExtents ==
    { ExtentsDefault, ExtOf(MaxDim - 1, MaxDim - 1, 1),
      ExtOf(MaxDim, MaxDim, 1), ExtOf(MaxDim - 1, MaxDim, 4) }
WideExtents ==
    { ExtentsDefault, Ext(Pow2_16, Pow2_16, One), Ext(Pow2_15, Pow2_15, One),
      Ext(U32Max, Pow2_30, One) }
AllExtents == SmallExtents \cup WideExtents

\* the mathematical values the sizes stand for
MathComponents(e) == Mul(Mul(Mul(e.x, e.y), e.z), FromInt(4))
MathCeilDiv(a, d) == DivSmall(Add(a, FromInt(d - 1)), d)
MathBlocks(e, b) ==
    Mul(Mul(MathCeilDiv(e.x, ToInt(b.x)), MathCeilDiv(e.y, ToInt(b.y))),
        MathCeilDiv(e.z, ToInt(b.z)))
MathComponentsMemo == [e \in AllExtents |-> MathComponents(e)]
MathBytesMemo ==
    [e \in AllExtents |->
        [b \in SupportedBlocks |-> Mul(MathBlocks(e, b), FromInt(16))]]

\* an Image<T>: its extents and the length of its buffer, in components.  The
\* buffers a caller can hold: of the right length, one longer, or of the
\* length the extents give in 32 bits
ImagesOf(e) ==
    { [extents |-> e, len |-> l] :
        l \in { n \in { MathComponents(e), Add(MathComponents(e), One),
                        Trunc(MathComponents(e), U32Limbs) } : ~AboveIsizeMax(n) } }
SmallImages == UNION { ImagesOf(e) : e \in SmallExtents }
WideImages == UNION { ImagesOf(e) : e \in WideExtents }

(* ------------------------- Context::compress --------------------------- *)
BYTES_PER_BLOCK == 16

\* image.extents.x * image.extents.y * image.extents.z * 4, in u32
ExpectedComponents(e) ==
    LET xy == MulU32(e.x, e.y)
        xyz == MulU32(xy.val, e.z)
        all == MulU32(xyz.val, FromInt(4))
    IN  [val |-> all.val, ovf |-> xy.ovf \/ xyz.ovf \/ all.ovf]

\* the sizes of every input of the model, computed once
ExpectedMemo == [e \in AllExtents |-> ExpectedComponents(e)]

\* the guard of the early return Err(BadParam)
LengthMismatch(image) == image.len # ExpectedMemo[image.extents].val

\* (axis + block_axis - 1) / block_axis, in u32
BlocksAlong(axis, block_axis) ==
    LET sum == AddU32(axis, block_axis)
        dec == SubU32(sum.val, One)
    IN  [val |-> DivSmall(dec.val, ToInt(block_axis)), ovf |-> sum.ovf \/ dec.ovf]

\* blocks_x * blocks_y * blocks_z * BYTES_PER_BLOCK, in usize
OutputBytes(e, block) ==
    LET bx == BlocksAlong(e.x, block.x)
        by == BlocksAlong(e.y, block.y)
        bz == BlocksAlong(e.z, block.z)
        xy == MulUsize(bx.val, by.val)
        xyz == MulUsize(xy.val, bz.val)
        all == MulUsize(xyz.val, FromInt(BYTES_PER_BLOCK))
    IN  [val |-> all.val,
         ovf |-> bx.ovf \/ by.ovf \/ bz.ovf \/ xy.ovf \/ xyz.ovf \/ all.ovf]

OutputBytesMemo ==
    [e \in AllExtents |-> [b \in SupportedBlocks |-> OutputBytes(e, b)]]

\* whether compress panics before it returns or reaches the engine: an integer
\* overflow panics in a build with overflow checks and wraps in one without, so
\* both outcomes are possible; a capacity above isize::MAX panics in every build
\* the engine reads and writes x*y*z*4 components of the image it is described,
\* and writes the whole compressed size: on a shorter buffer that is out of
\* bounds, and the behaviour is undefined
UNDEFINED == "UNDEFINED_BEHAVIOUR"
Overrun(extents, len) == Less(len, MathComponentsMemo[extents])
OverrunOut(extents, block, bytes) == Less(bytes, MathBytesMemo[extents][block])
EngineReturns(overrun) ==
    IF overrun THEN ContextCallCodes \cup { UNDEFINED } ELSE ContextCallCodes
Outcome(code) == IF code = UNDEFINED THEN "Undefined" ELSE error_code_to_result(code)

CompressPanics(image, block) ==
    LET bytes == OutputBytesMemo[image.extents][block]
        must == ~LengthMismatch(image) /\ AboveIsizeMax(bytes.val)
        may == \/ ExpectedMemo[image.extents].ovf
               \/ ~LengthMismatch(image) /\ bytes.ovf
    IN  IF must THEN {TRUE} ELSE IF may THEN {TRUE, FALSE} ELSE {FALSE}

\* compress resetting whatever the engine's compress returned
ResetIssuedAlways(code) == TRUE

\* `?` on the engine's compress status, then self.reset()
ResetIssued(code) == error_code_to_result(code) = "Ok"

\* Context::reset: astcenc_compress_reset on the native context
reset(hs, h, rcode) == AfterCompressReset(hs, h, rcode)

\* the caller's record of the Context's compress calls, after one returned
NotProduced(ctx) == [ctx.produced EXCEPT !.streak = 0]
ProducedBy(ctx, image, bytes) ==
    [has |-> TRUE, streak |-> IF ctx.produced.streak = 0 THEN 1 ELSE 2,
     extents |-> image.extents, inlen |-> image.len, len |-> bytes]

compress(c, images) ==
    /\ ctxs[c].alive
    /\ \E image \in images : \E panics \in CompressPanics(image, ctxs[c].block) :
        LET ctx == ctxs[c]
            h == ctx.inner
            bytes == OutputBytesMemo[image.extents][ctx.block].val
            Ret(calls, res, out) ==
                Returned("compress", c, image.extents, image.len, NoData,
                         calls, res, out)
            first(code) ==
                EngineCall("astcenc_compress_image", h, code, bytes, handles[h].dirty)
        IN  IF panics
            THEN /\ last' = Ret(<< >>, "Panic", NoOutput)
                 /\ ctxs' = [ctxs EXCEPT ![c].produced = NotProduced(ctx)]
                 /\ UNCHANGED << config, handles >>
            ELSE IF LengthMismatch(image)
            THEN /\ last' = Ret(<< >>, "BadParam", NoOutput)
                 /\ ctxs' = [ctxs EXCEPT ![c].produced = NotProduced(ctx)]
                 /\ UNCHANGED << config, handles >>
            ELSE \E code \in EngineReturns(Overrun(image.extents, image.len)
                                            \/ OverrunOut(image.extents, ctx.block, bytes)) :
                 IF ~ResetIssued(code)
                 THEN /\ handles' = AfterCompressImage(handles, h, code)
                      /\ last' = Ret(<< first(code) >>, Outcome(code), NoOutput)
                      /\ ctxs' = [ctxs EXCEPT ![c].produced = NotProduced(ctx)]
                      /\ UNCHANGED config
                 ELSE \E rcode \in ContextCallCodes :
                      LET res == error_code_to_result(rcode)
                          mid == AfterCompressImage(handles, h, code)
                          second == EngineCall("astcenc_compress_reset", h, rcode,
                                               Zero, mid[h].dirty)
                      IN  /\ handles' = reset(mid, h, rcode)
                          /\ last' = Ret(<< first(code), second >>, res,
                                         IF res = "Ok"
                                         THEN [has |-> TRUE, extents |-> image.extents,
                                               len |-> bytes]
                                         ELSE NoOutput)
                          /\ ctxs' = IF res = "Ok"
                                     THEN [ctxs EXCEPT ![c].produced =
                                             ProducedBy(ctx, image, bytes)]
                                     ELSE [ctxs EXCEPT ![c].produced = NotProduced(ctx)]
                          /\ UNCHANGED config

(* ------------------- Context::decompress[_into] ------------------------ *)
\* compressed input the caller can pass: the bytes a live Context's last
\* successful compress returned, or a buffer that came from elsewhere
CompressedInputs ==
    { [len |-> ctxs[k].produced.len, src |-> ctxs[k].inner] :
        k \in { s \in Slots : ctxs[s].alive /\ ctxs[s].produced.has } }
    \cup { [len |-> One, src |-> 0] }

\* decompress_into: the caller's image is handed to the engine as it is
decompress_into(c, images) ==
    /\ ctxs[c].alive
    /\ \E data \in CompressedInputs : \E out \in images :
       \E code \in EngineReturns(Overrun(out.extents, out.len)) :
        LET res == Outcome(code)
            h == ctxs[c].inner
        IN  /\ last' = Returned("decompress_into", c, out.extents, out.len, data,
                                << EngineCall("astcenc_decompress_image", h, code,
                                              data.len, handles[h].dirty) >>,
                                res,
                                [has |-> res = "Ok", extents |-> out.extents,
                                 len |-> out.len])
            /\ UNCHANGED << config, ctxs, handles >>

\* (extents.x * extents.y * extents.z * 4) as usize
DecompressSize(e) == ExpectedComponents(e)

DecompressSizeMemo == [e \in AllExtents |-> DecompressSize(e)]

\* the multiplication overflows: a panic with overflow checks, a wrap without
DecompressPanics(extents) ==
    IF DecompressSizeMemo[extents].ovf THEN {TRUE, FALSE} ELSE {FALSE}

\* decompress: allocates the output from the extents, then as decompress_into
decompress(c, exts) ==
    /\ ctxs[c].alive
    /\ \E data \in CompressedInputs : \E extents \in exts :
       \E panics \in DecompressPanics(extents) :
        LET size == DecompressSizeMemo[extents]
            h == ctxs[c].inner
            Ret(len, calls, res, out) ==
                Returned("decompress", c, extents, len, data, calls, res, out)
        IN  /\ IF panics
               THEN last' = Ret(Zero, << >>, "Panic", NoOutput)
               ELSE \E code \in EngineReturns(Overrun(extents, size.val)) :
                    LET res == Outcome(code)
                    IN  last' = Ret(size.val,
                                    << EngineCall("astcenc_decompress_image", h, code,
                                                  data.len, handles[h].dirty) >>,
                                    res,
                                    IF res = "Ok"
                                    THEN [has |-> TRUE, extents |-> extents,
                                          len |-> size.val]
                                    ELSE NoOutput)
            /\ UNCHANGED << config, ctxs, handles >>

ImageOps == { "compress", "decompress_into", "decompress" }

(* --------------------------- specifications ---------------------------- *)
\* every operation, called by a single caller, on images of a few components
Next ==
    \/ build /\ UNCHANGED << threads, builder >>
    \/ \E c \in Slots : new(c) /\ UNCHANGED << threads, builder >>
    \/ \E c \in Slots : compress(c, SmallImages) /\ UNCHANGED << threads, builder >>
    \/ \E c \in Slots : decompress_into(c, SmallImages) /\ UNCHANGED << threads, builder >>
    \/ \E c \in Slots : decompress(c, SmallExtents) /\ UNCHANGED << threads, builder >>
    \/ \E c \in Slots : drop(c) /\ UNCHANGED << threads, builder >>

Spec == Init /\ [][Next]_vars

\* the same operations on images whose sizes reach the width of u32
NextWide ==
    \/ build /\ UNCHANGED << threads, builder >>
    \/ \E c \in Slots : new(c) /\ UNCHANGED << threads, builder >>
    \/ \E c \in Slots : compress(c, WideImages) /\ UNCHANGED << threads, builder >>
    \/ \E c \in Slots : decompress_into(c, WideImages) /\ UNCHANGED << threads, builder >>
    \/ \E c \in Slots : decompress(c, WideExtents) /\ UNCHANGED << threads, builder >>
    \/ \E c \in Slots : drop(c) /\ UNCHANGED << threads, builder >>

SpecWide == Init /\ [][NextWide]_vars

\* the same operations with buffers shorter than their extents say
ShortImages ==
    { [extents |-> ExtOf(MaxDim, MaxDim, 1), len |-> l] :
        l \in { MathComponentsMemo[ExtOf(MaxDim, MaxDim, 1)], FromInt(MaxDim) } }

NextShort ==
    \/ build /\ UNCHANGED << threads, builder >>
    \/ \E c \in Slots : new(c) /\ UNCHANGED << threads, builder >>
    \/ \E c \in Slots : compress(c, ShortImages) /\ UNCHANGED << threads, builder >>
    \/ \E c \in Slots : decompress_into(c, ShortImages) /\ UNCHANGED << threads, builder >>
    \/ \E c \in Slots : decompress(c, SmallExtents) /\ UNCHANGED << threads, builder >>
    \/ \E c \in Slots : drop(c) /\ UNCHANGED << threads, builder >>

SpecShort == Init /\ [][NextShort]_vars

(* ------------------------------- threads ------------------------------- *)
\* the methods with a &self receiver
SelfBorrowShared(op) == "shared"

\* the receiver each method declares: compress, decompress_into and decompress
\* all take &mut self
SelfBorrow(op) == "mut"

InFlight(c) == { t \in Threads : running[t].op # "idle" /\ running[t].ctx = c }
Unborrowed(c) == access[c].shared = {} /\ access[c].excl = 0

\* what the borrow rules let thread t call on Context c: a &mut self method
\* needs the Context itself with nothing lent, or the one &mut reference; a
\* &self method is open to the owner and to every holder of a reference
MayCall(t, c, borrow) ==
    IF borrow = "mut"
    THEN \/ access[c].owner = t /\ Unborrowed(c)
         \/ access[c].excl = t
    ELSE \/ access[c].owner = t /\ access[c].excl = 0
         \/ t \in access[c].shared
         \/ access[c].excl = t

\* a call in flight borrows the Context for as long as it runs
MutBorrowedByCall(c) == \E t \in InFlight(c) : SelfBorrow(running[t].op) = "mut"

ThreadImages == ImagesOf(ExtOf(MaxDim, MaxDim, 1))
ThreadExtents == { ExtOf(MaxDim, MaxDim, 1) }

ThreadBuild == build /\ UNCHANGED << threads, builder >>

\* thread t creates the Context and owns it
ThreadNew(t, c) ==
    /\ running[t] = Idle
    /\ new(c)
    /\ access' = IF ctxs'[c].alive
                 THEN [access EXCEPT ![c] = [NoAccess EXCEPT !.owner = t]]
                 ELSE access
    /\ UNCHANGED << running, builder >>

\* Context is Send: its owner hands it to another thread
Move(c, t) ==
    /\ ctxs[c].alive
    /\ t # access[c].owner
    /\ Unborrowed(c)
    /\ InFlight(c) = {}
    /\ access' = [access EXCEPT ![c].owner = t]
    /\ UNCHANGED << config, ctxs, handles, last, running, builder >>

\* Context is Sync: a & reference goes to another thread
ShareRef(c, t) ==
    /\ ctxs[c].alive
    /\ t # access[c].owner
    /\ t \notin access[c].shared
    /\ access[c].excl = 0
    /\ ~MutBorrowedByCall(c)
    /\ access' = [access EXCEPT ![c].shared = @ \cup {t}]
    /\ UNCHANGED << config, ctxs, handles, last, running, builder >>

\* the one &mut reference goes to another thread
LendMut(c, t) ==
    /\ ctxs[c].alive
    /\ t # access[c].owner
    /\ Unborrowed(c)
    /\ InFlight(c) = {}
    /\ access' = [access EXCEPT ![c].excl = t]
    /\ UNCHANGED << config, ctxs, handles, last, running, builder >>

\* a reference is given back, once no call made through it is running
Release(c, t) ==
    /\ t \in access[c].shared \/ access[c].excl = t
    /\ t \notin InFlight(c)
    /\ access' = [access EXCEPT ![c].shared = @ \ {t},
                                ![c].excl = IF @ = t THEN 0 ELSE @]
    /\ UNCHANGED << config, ctxs, handles, last, running, builder >>

\* thread t enters a method of Context c
Begin(t, c, op) ==
    /\ running[t] = Idle
    /\ ctxs[c].alive
    /\ MayCall(t, c, SelfBorrow(op))
    /\ running' = [running EXCEPT ![t] = [op |-> op, ctx |-> c]]
    /\ UNCHANGED << config, ctxs, handles, last, access, builder >>

\* the method runs in the engine and returns
End(t) ==
    /\ running[t] # Idle
    /\ \/ running[t].op = "compress" /\ compress(running[t].ctx, ThreadImages)
       \/ running[t].op = "decompress_into"
            /\ decompress_into(running[t].ctx, ThreadImages)
       \/ running[t].op = "decompress" /\ decompress(running[t].ctx, ThreadExtents)
    /\ running' = [running EXCEPT ![t] = Idle]
    /\ UNCHANGED << access, builder >>

\* the owner destroys the Context: nothing is lent, nothing runs
ThreadDrop(c) ==
    /\ Unborrowed(c)
    /\ InFlight(c) = {}
    /\ drop(c)
    /\ access' = [access EXCEPT ![c] = NoAccess]
    /\ UNCHANGED << running, builder >>

NextThreads ==
    \/ ThreadBuild
    \/ \E t \in Threads : \E c \in Slots : ThreadNew(t, c)
    \/ \E t \in Threads : \E c \in Slots : Move(c, t)
    \/ \E t \in Threads : \E c \in Slots : ShareRef(c, t)
    \/ \E t \in Threads : \E c \in Slots : LendMut(c, t)
    \/ \E t \in Threads : \E c \in Slots : Release(c, t)
    \/ \E t \in Threads : \E c \in Slots : \E op \in ImageOps : Begin(t, c, op)
    \/ \E t \in Threads : End(t)
    \/ \E c \in Slots : ThreadDrop(c)

SpecThreads == Init /\ [][NextThreads]_vars

(* -------------------- ConfigBuilder and the defaults -------------------- *)
Profiles == { "LdrRgba", "HdrRgba" }
Presets == { "PRESET_MEDIUM", "PRESET_FAST" }

\* Flags::default()
FlagsDefault == { "USE_ALPHA_WEIGHT" }

\* ConfigBuilder::default(): default profile, default preset, 4x4x1 blocks
BuilderDefault ==
    [has |-> TRUE, profile |-> "LdrRgba", preset |-> "PRESET_MEDIUM",
     block_size |-> default_block_size]

ConfigBuilder_new ==
    /\ builder' = BuilderDefault
    /\ last' = Returned("ConfigBuilder::new", 0, ExtentsDefault, Zero, NoData, << >>,
                        "Ok", NoOutput)
    /\ UNCHANGED << config, ctxs, handles, threads >>

\* a setter stores its argument in the builder and hands the builder back
Setter(op, b) ==
    /\ builder.has
    /\ builder' = b
    /\ last' = Returned(op, 0, ExtentsDefault, Zero, NoData, << >>, "Ok", NoOutput)
    /\ UNCHANGED << config, ctxs, handles, threads >>

profile(p) == Setter("profile", [builder EXCEPT !.profile = p])
with_profile(p) == Setter("with_profile", [builder EXCEPT !.profile = p])
preset(q) == Setter("preset", [builder EXCEPT !.preset = q])
with_preset(q) == Setter("with_preset", [builder EXCEPT !.preset = q])
block_size(b) == Setter("block_size", [builder EXCEPT !.block_size = b])
with_block_size(b) == Setter("with_block_size", [builder EXCEPT !.block_size = b])

\* build passing the default block size whatever the builder holds
ConfigInitArgsDefaultBlock(b) ==
    [profile |-> b.profile, block |-> default_block_size, preset |-> b.preset,
     flags |-> FlagsDefault]

\* the arguments build gives astcenc_config_init
ConfigInitArgs(b) ==
    [profile |-> b.profile, block |-> b.block_size, preset |-> b.preset,
     flags |-> FlagsDefault]

ConfigInitCall(code) == EngineCall("astcenc_config_init", 0, code, Zero, FALSE)

\* ConfigBuilder::build(self) on the builder the caller holds
ConfigBuilder_build ==
    /\ builder.has
    /\ LET args == ConfigInitArgs(builder)
       IN  \E code \in ConfigInitCodes(args.block) :
             LET res == error_code_to_result(code)
             IN  /\ config' = IF res = "Ok"
                              THEN [has |-> TRUE, block |-> args.block]
                              ELSE config
                 /\ last' = Returned("build", 0, args.block, Zero, NoData,
                                     << ConfigInitCall(code) >>, res, NoOutput)
                            @@ [args |-> args]
    /\ builder' = NoBuilder
    /\ UNCHANGED << ctxs, handles, threads >>

\* Result::unwrap
unwrap(res) == IF res = "Ok" THEN "Ok" ELSE "Panic"

\* Config::default(): ConfigBuilder::default().build().unwrap()
Config_default ==
    \E code \in ConfigInitCodes(BuilderDefault.block_size) :
        LET args == ConfigInitArgs(BuilderDefault)
            res == unwrap(error_code_to_result(code))
        IN  /\ config' = IF res = "Ok"
                         THEN [has |-> TRUE, block |-> args.block]
                         ELSE config
            /\ last' = Returned("Config::default", 0, args.block, Zero, NoData,
                                << ConfigInitCall(code) >>, res, NoOutput)
                       @@ [args |-> args]
            /\ UNCHANGED << ctxs, handles, threads, builder >>

\* Context::default(): Self::new(Config::default()).unwrap()
Context_default(c) ==
    /\ ~ctxs[c].alive
    /\ Cardinality(Allocated) < MaxHandles
    /\ \E vcode \in ConfigInitCodes(BuilderDefault.block_size) :
        LET block == ConfigInitArgs(BuilderDefault).block
            Ret(calls, res) ==
                Returned("Context::default", c, block, Zero, NoData, calls, res,
                         NoOutput)
        IN  IF unwrap(error_code_to_result(vcode)) = "Panic"
            THEN /\ last' = Ret(<< ConfigInitCall(vcode) >>, "Panic")
                 /\ UNCHANGED << ctxs, handles >>
            ELSE \E code \in ContextCallCodes : \E ptr \in AllocPointers(code) :
                 LET res == unwrap(NewResult(code, ptr))
                 IN  /\ handles' = AfterContextAlloc(handles, ptr, code)
                     /\ ctxs' = IF res = "Ok"
                                THEN [ctxs EXCEPT ![c] =
                                        [alive |-> TRUE, inner |-> ptr, block |-> block,
                                         produced |-> NoProduced]]
                                ELSE ctxs
                     /\ last' = Ret(<< ConfigInitCall(vcode),
                                       EngineCall("astcenc_context_alloc", ptr, code,
                                                  Zero, FALSE) >>, res)
    /\ UNCHANGED << config, threads, builder >>

\* every public entry point, the builder's setters included
NextConfig ==
    \/ ConfigBuilder_new
    \/ \E p \in Profiles : profile(p)
    \/ \E p \in Profiles : with_profile(p)
    \/ \E q \in Presets : preset(q)
    \/ \E q \in Presets : with_preset(q)
    \/ \E b \in BuildBlocks : block_size(b)
    \/ \E b \in BuildBlocks : with_block_size(b)
    \/ ConfigBuilder_build
    \/ Config_default
    \/ \E c \in Slots : new(c) /\ UNCHANGED << threads, builder >>
    \/ \E c \in Slots : Context_default(c)
    \/ \E c \in Slots : compress(c, ThreadImages) /\ UNCHANGED << threads, builder >>
    \/ \E c \in Slots : decompress_into(c, ThreadImages) /\ UNCHANGED << threads, builder >>
    \/ \E c \in Slots : decompress(c, ThreadExtents) /\ UNCHANGED << threads, builder >>
    \/ \E c \in Slots : drop(c) /\ UNCHANGED << threads, builder >>

SpecConfig == Init /\ [][NextConfig]_vars

(* ------------------------------- claims -------------------------------- *)
LastHandle == ctxs[last.ctx].inner
LastBlock == ctxs[last.ctx].block
EngineCalls(fn) == { i \in 1..Len(last.calls) : last.calls[i].fn = fn }

\* C1: a compress of an image whose buffer length differs from x*y*z*4 returns
\* Err(BadParam) and calls neither the engine's compress nor its reset.
C1_MismatchRejected ==
    (last.op = "compress" /\ last.len # MathComponentsMemo[last.extents])
        => (last.res = "BadParam" /\ last.calls = << >>)

\* C2: a successful compress returns exactly ceil(x/bx) * ceil(y/by) *
\* ceil(z/bz) * 16 bytes, and that number is the output size the engine got.
C2_OutputLength ==
    (last.op = "compress" /\ last.res = "Ok")
        => /\ last.out.len = MathBytesMemo[last.extents][LastBlock]
           /\ last.calls[1].size = MathBytesMemo[last.extents][LastBlock]

\* C3: the engine's reset is called exactly once right after each engine
\* compress that returned success, within the same compress call, and at no
\* other time: not by decompress or decompress_into, not after a compress that
\* was rejected or whose engine call failed.
C3_ResetOnlyAfterCompressSuccess ==
    LET n == Len(last.calls)
        IsReset(i) == last.calls[i].fn = "astcenc_compress_reset"
        CompressOk(i) == /\ last.calls[i].fn = "astcenc_compress_image"
                         /\ last.calls[i].code = SUCCESS
    IN  /\ \A i \in 1..n : IsReset(i) => (i > 1 /\ CompressOk(i - 1))
        /\ \A i \in 1..n : CompressOk(i) => (i < n /\ IsReset(i + 1))
        /\ last.op # "compress" => EngineCalls("astcenc_compress_reset") = {}

C3_Witness ==
    /\ last.op = "compress"
    /\ Len(last.calls) = 2
    /\ last.calls[1].code = SUCCESS
    /\ last.calls[2].fn = "astcenc_compress_reset"

AllSuccess(calls) == \A i \in 1..Len(calls) : calls[i].code = SUCCESS

\* C4: after a compress that succeeded, a following compress of an image whose
\* buffer length matches its extents, on the same Context, uses the same native
\* handle and allocates none, finds the engine state clean, succeeds (it
\* reaches the engine and returns Ok when the engine's calls do), and returns an
\* output whose length is the size computed for this image alone.
C4_ReuseSucceeds ==
    [][ \A c \in Slots :
          ( /\ ctxs[c].alive
            /\ ctxs[c].produced.streak >= 1
            /\ last'.op = "compress"
            /\ last'.ctx = c
            /\ last'.len = MathComponentsMemo[last'.extents] )
          => /\ ctxs'[c].alive /\ ctxs'[c].inner = ctxs[c].inner
             /\ \A h \in HandleIds : handles'[h].state = handles[h].state
             /\ last'.calls # << >>
             /\ last'.calls[1].handle = ctxs[c].inner
             /\ ~last'.calls[1].dirty_in
             /\ (last'.res = "Ok") = AllSuccess(last'.calls)
             /\ last'.res = "Ok" =>
                  /\ last'.out.len = last'.calls[1].size
                  /\ last'.extents = ctxs[c].produced.extents
                        => last'.out.len = ctxs[c].produced.len
      ]_vars

\* a decompress or decompress_into of the bytes the Context's last successful
\* compress returned, with that image's extents
C5_Case ==
    /\ last.op \in { "decompress", "decompress_into" }
    /\ ctxs[last.ctx].produced.has
    /\ last.data = [len |-> ctxs[last.ctx].produced.len, src |-> LastHandle]
    /\ last.extents = ctxs[last.ctx].produced.extents
    /\ ctxs[last.ctx].produced.inlen = MathComponentsMemo[last.extents]
    /\ last.op = "decompress_into" => last.len = MathComponentsMemo[last.extents]

\* C5: for an image whose buffer length equals x*y*z*4, compress succeeds (it
\* reaches the engine and returns Ok when the engine's calls do), and a
\* decompress or decompress_into of the returned bytes on the same Context
\* with the same extents succeeds likewise and yields an image with the
\* input's extents and the input's buffer length.  The swizzle is handed to
\* the engine unread, so it does not enter.
C5_RoundTripShape ==
    /\ (last.op = "compress" /\ last.len = MathComponentsMemo[last.extents])
          => /\ last.calls # << >>
             /\ (last.res = "Ok") = AllSuccess(last.calls)
    /\ C5_Case =>
          /\ last.calls # << >>
          /\ (last.res = "Ok") = AllSuccess(last.calls)
          /\ last.res = "Ok" =>
               /\ last.out.has
               /\ last.out.extents = ctxs[last.ctx].produced.extents
               /\ last.out.len = ctxs[last.ctx].produced.inlen

\* the Error Taxonomy as the claim lists it
TaxonomyPairs ==
    { << SUCCESS, "Ok" >>,
      << "ASTCENC_ERR_BAD_BLOCK_SIZE", "BadBlockSize" >>,
      << "ASTCENC_ERR_BAD_CONTEXT", "BadContext" >>,
      << "ASTCENC_ERR_BAD_CPU_FLOAT", "BadCpuFloat" >>,
      << "ASTCENC_ERR_BAD_DECODE_MODE", "BadDecodeMode" >>,
      << "ASTCENC_ERR_BAD_FLAGS", "BadFlags" >>,
      << "ASTCENC_ERR_BAD_PARAM", "BadParam" >>,
      << "ASTCENC_ERR_BAD_QUALITY", "BadQuality" >>,
      << "ASTCENC_ERR_BAD_PROFILE", "BadProfile" >>,
      << "ASTCENC_ERR_BAD_SWIZZLE", "BadSwizzle" >>,
      << "ASTCENC_ERR_NOT_IMPLEMENTED", "NotImplemented" >>,
      << "ASTCENC_ERR_OUT_OF_MEM", "OutOfMem" >> }
    \cup { << code, "Unknown" >> : code \in UnlistedCodes }

\* the status whose mapping a call returned: that of its last engine call
LastCode == last.calls[Len(last.calls)].code
NullAfterSuccess ==
    /\ last.op = "new"
    /\ LastCode = SUCCESS
    /\ last.calls[1].handle = 0

\* C6: the status mapping is total: success maps to Ok, each of the eleven
\* known error codes to its own variant, every other code to Unknown, and no
\* code but success to Ok.  Stated of every call that returned the mapping of an
\* engine status (build draws every code).
C6_StatusMapping ==
    (last.calls # << >> /\ ~NullAfterSuccess) =>
        /\ << LastCode, last.res >> \in TaxonomyPairs
        /\ (last.res = "Ok") = (LastCode = SUCCESS)

C6_Witness ==
    /\ last.op = "build"
    /\ LastCode \in UnlistedCodes
    /\ last.res = "Unknown"

\* C7: at no time are two calls in flight on the same Context, whichever
\* threads hold the Context or references to it: every method that reaches the
\* engine takes &mut self.
C7_OneCallInFlight ==
    \A c \in Slots : Cardinality(InFlight(c)) <= 1

C7_Witness ==
    \E c \in Slots : \E t \in InFlight(c) :
        /\ t # access[c].owner
        /\ access[c].excl = t
        /\ ctxs[c].produced.has

\* C8: every native handle allocated by Context::new is released when its
\* Context is destroyed: no allocated handle is without a live Context, and no
\* engine call is made on a handle that is not allocated.
C8_HandlesReleased ==
    /\ \A h \in HandleIds :
          handles[h].state = "allocated"
            => \E c \in Slots : ctxs[c].alive /\ ctxs[c].inner = h
    /\ \A i \in 1..Len(last.calls) :
          last.calls[i].handle # 0 => handles[last.calls[i].handle].state = "allocated"

LengthCheckFailed ==
    /\ last.op = "compress"
    /\ last.calls = << >>
    /\ last.res = "BadParam"
    /\ last.len # ExpectedMemo[last.extents].val

\* C9 as claimed: the only error not the mapping of a status the engine
\* returned in the call is BadParam from compress's length check.
C9_OnlyLengthCheckSynthesized ==
    last.res \in Errors =>
        \/ LengthCheckFailed
        \/ last.calls # << >> /\ << LastCode, last.res >> \in TaxonomyPairs

\* C9 amended: the errors not the mapping of a status the engine returned in
\* the call are BadParam from compress's length check and Unknown from
\* Context::new when the engine reports success and leaves a null handle.
C9_SynthesizedErrors ==
    last.res \in Errors =>
        \/ LengthCheckFailed
        \/ NullAfterSuccess /\ last.res = "Unknown"
        \/ last.calls # << >> /\ << LastCode, last.res >> \in TaxonomyPairs

C9_Witness == NullAfterSuccess /\ last.res = "Unknown"

CompressedThenFailed ==
    /\ last.res \in Errors
    /\ \E i \in 1..Len(last.calls) :
          /\ last.calls[i].fn = "astcenc_compress_image"
          /\ last.calls[i].code = SUCCESS

\* C10: every compress or decompress call returns Ok with the complete output
\* or Err with none, leaves the Context clean either way, and never returns Err
\* after the engine has produced the compressed result.
C10_AllOrNothing ==
    last.op \in ImageOps =>
        /\ last.res = "Ok" \/ last.res \in Errors
        /\ last.res = "Ok" => last.out.has
        /\ last.res \in Errors => ~last.out.has
        /\ ~handles[LastHandle].dirty
        /\ ~CompressedThenFailed

\* C11: no public entry point panics: a failure is reported as a typed Err.
C11_NoPanic == last.res # "Panic"

SetterOps ==
    { "profile", "with_profile", "preset", "with_preset", "block_size",
      "with_block_size" }

\* C12: no setter fails or reaches the engine; build calls the engine's
\* validation once, with the builder's profile, block size and preset and the
\* default flag set, returns Ok with a Config exactly when the validation
\* returns success and otherwise the mapped error with no Config produced; a
\* Config comes into existence only out of a validation that succeeded.
C12_OnlyBuildFails ==
    [][ /\ last'.op \in SetterOps =>
              /\ last'.res = "Ok"
              /\ last'.calls = << >>
              /\ builder'.has
              /\ config' = config
        /\ last'.op = "build" =>
              /\ Len(last'.calls) = 1
              /\ last'.calls[1].fn = "astcenc_config_init"
              /\ last'.args = [profile |-> builder.profile,
                               block |-> builder.block_size,
                               preset |-> builder.preset,
                               flags |-> { "USE_ALPHA_WEIGHT" }]
              /\ (last'.res = "Ok") = (last'.calls[1].code = SUCCESS)
              /\ last'.res = "Ok" =>
                    config' = [has |-> TRUE, block |-> builder.block_size]
              /\ last'.res # "Ok" =>
                    /\ << last'.calls[1].code, last'.res >> \in TaxonomyPairs
                    /\ config' = config
        /\ (config'.has /\ config' # config) =>
              /\ last'.op \in { "build", "Config::default" }
              /\ last'.res = "Ok"
              /\ last'.calls[1].code = SUCCESS
      ]_vars

C12_Witness ==
    /\ last.op = "build"
    /\ last.res = "BadBlockSize"
    /\ last.args.profile = "HdrRgba"
    /\ last.args.preset = "PRESET_FAST"
    /\ ~config.has

ImageCalls ==
    { i \in 1..Len(last.calls) :
        last.calls[i].fn \in { "astcenc_compress_image", "astcenc_decompress_image" } }

\* C13: whenever compress, decompress_into or decompress invokes the engine
\* with an image, the image's buffer holds exactly x*y*z*4 components for the
\* extents it declares.
C13_BufferMatchesExtents ==
    (last.op \in ImageOps /\ ImageCalls # {})
        => last.len = MathComponentsMemo[last.extents]

\* C14: the sizes compress and decompress compute do not wrap: the component
\* count of the length check and of decompress's allocation is the product
\* x*y*z*4, and each block count of compress is ceil(axis / block_axis).
C14_NoWrap ==
    /\ last.op \in { "compress", "decompress" } =>
          ExpectedMemo[last.extents].val = MathComponentsMemo[last.extents]
    /\ last.op = "compress" =>
          /\ BlocksAlong(last.extents.x, LastBlock.x).val
                = MathCeilDiv(last.extents.x, ToInt(LastBlock.x))
          /\ BlocksAlong(last.extents.y, LastBlock.y).val
                = MathCeilDiv(last.extents.y, ToInt(LastBlock.y))
          /\ BlocksAlong(last.extents.z, LastBlock.z).val
                = MathCeilDiv(last.extents.z, ToInt(LastBlock.z))

====
